---- MODULE Spec2Model ----
(***************************************************************************)
(* Azure-FinOps: the cost aggregation and alerting engine (utils.py) and   *)
(* the report.py run that drives it.                                       *)
(*                                                                         *)
(* Costs are fixed-point numbers in thousandths of the currency unit       *)
(* (1 = 0.001), so that the epsilon 0.01 of check_alert is the integer 10. *)
(* Quotients (average, percent variation) are exact rationals: records     *)
(* [n, d] in lowest terms with d > 0.                                      *)
(* Dates (datetime) are day ordinals counted from 2023-12-01; a formatted  *)
(* date (strftime) is the tuple <<year, month, day>> of its fields.        *)
(***************************************************************************)
EXTENDS Integers, Sequences, FiniteSets, TLC

VARIABLES
    subscription_prefix,  \* args.subscription_prefix, a string (tuple of characters)
    grouping_key,         \* args.grouping_key, "" when not given
    analysis_type,        \* args.analysis_type: "group" | "tag" | "subscription"
    alert_mode,           \* args.alert
    save_xlsx,            \* args.save
    start_date_str,       \* args.date: the fields <<y, m, d>>, <<>> when not given
    period,               \* args.period
    utcnow,               \* the day ordinal of datetime.utcnow()
    pc,                   \* position of the run
    subscription_ids,     \* list of subscription names returned by az account list
    idx,                  \* position of the loop over subscription_ids (1-based)
    data,                 \* what request_and_process returned for the current query
    analysis,             \* what analyze_costs* returned for the current subscription
    returned,             \* what analyze_subscription returned to main
    subscription_results, \* report.py main: sequence of [name, df]
    request_count,        \* utils.request_count
    error_log,            \* the messages passed to logging.error, in order
    info_log,             \* the results that main passed to logging.info, in order,
                          \* and the success message of save_execution_result
    exit_code,            \* exit status of the process, "running" until it ends
    payload,              \* the payload of the last cost query that was built
    events,               \* the cost queries sent ("post") and the pauses made
                          \* (time.sleep), in order
    logged_total,         \* the total of requests that main logged at its end,
                          \* -1 before
    call,                 \* a function called on its own: its name and arguments
    retval                \* the value that call returned

vars == <<subscription_prefix, grouping_key, analysis_type, alert_mode, save_xlsx,
          start_date_str, period, utcnow, pc, subscription_ids, idx, data,
          analysis, returned, subscription_results, request_count, error_log,
          info_log, exit_code, payload, events, logged_total, call, retval>>

None == "None"

-----------------------------------------------------------------------------
(* Bounds of the model *)

MaxPeriod == 2
MaxRows == 3
MaxRunRows == 2
MaxSubs == 2
\* check_alert on its own: costs and totals up to 0.024, over up to 3 days
MaxAlertCost == 24
MaxAlertDays == 3
\* process_costs of data_processing_utils on its own: a series over the
\* 8 days that end on the analysis date
MaxMeanDays == 8
\* get_resource_cost on its own: the rows of the response of a cost query
MaxCostRows == 2
\* find_common_prefix on its own: the length of a string and of the list
MaxStrLen == 2
MaxStrings == 3

-----------------------------------------------------------------------------
(* Exact rational arithmetic standing for Python float arithmetic *)

Abs(x) == IF x < 0 THEN -x ELSE x

RECURSIVE Gcd(_, _)
Gcd(a, b) == IF b = 0 THEN a ELSE Gcd(b, a % b)

\* n / d in lowest terms, d # 0
Rat(n, d) ==
    LET g == Gcd(Abs(n), Abs(d))
        s == IF d < 0 THEN -1 ELSE 1
    IN  [n |-> (s * n) \div g, d |-> (s * d) \div g]

RatInt(x) == [n |-> x, d |-> 1]
RatAdd(a, b) == Rat(a.n * b.d + b.n * a.d, a.d * b.d)
RatSub(a, b) == Rat(a.n * b.d - b.n * a.d, a.d * b.d)
RatMul(a, b) == Rat(a.n * b.n, a.d * b.d)
RatDiv(a, b) == Rat(a.n * b.d, a.d * b.n)
RatGT(a, b) == a.n * b.d > b.n * a.d

\* the constant 0.01 of check_alert, in thousandths
Epsilon == 10

-----------------------------------------------------------------------------
(* datetime: ordinals, strftime, strptime *)

IsLeap(y) == (y % 4 = 0 /\ y % 100 # 0) \/ y % 400 = 0

DaysInMonth(y, m) ==
    IF m = 2 THEN (IF IsLeap(y) THEN 29 ELSE 28)
    ELSE IF m \in {4, 6, 9, 11} THEN 30 ELSE 31

\* the first month of the calendar: ordinal 0 is 2023-12-01
Epoch == <<2023, 12>>

RECURSIVE FromOrdinalFrom(_, _, _)
FromOrdinalFrom(n, y, m) ==
    IF n < DaysInMonth(y, m) THEN <<y, m, n + 1>>
    ELSE FromOrdinalFrom(n - DaysInMonth(y, m),
                         IF m = 12 THEN y + 1 ELSE y,
                         IF m = 12 THEN 1 ELSE m + 1)

\* date.strftime('%Y-%m-%d') / strftime('%Y%m%d'): the fields of the day
strftime(ord) == FromOrdinalFrom(ord, Epoch[1], Epoch[2])

RECURSIVE DaysBefore(_, _, _, _)
DaysBefore(y, m, fy, fm) ==
    IF fy = y /\ fm = m THEN 0
    ELSE DaysInMonth(fy, fm)
         + DaysBefore(y, m, IF fm = 12 THEN fy + 1 ELSE fy,
                            IF fm = 12 THEN 1 ELSE fm + 1)

\* datetime.strptime(s, ...): the day ordinal of the fields <<y, m, d>>
strptime(s) == DaysBefore(s[1], s[2], Epoch[1], Epoch[2]) + s[3] - 1

\* int(date.strftime('%Y%m%d'))
DateInt(s) == s[1] * 10000 + s[2] * 100 + s[3]

\* datetime.weekday(): Monday = 0 .. Sunday = 6 (2023-12-01 is a Friday)
weekday(ord) == (ord + 4) % 7

-----------------------------------------------------------------------------
(* Sequence helpers *)

RECURSIVE SumSeq(_)
SumSeq(s) == IF s = <<>> THEN 0 ELSE Head(s) + SumSeq(Tail(s))

\* next((cost for date, cost in costs if date == date_int), 0)
FirstCost(costs, date_int) ==
    LET hits == {i \in 1..Len(costs) : costs[i][1] = date_int}
    IN  IF hits = {} THEN 0
        ELSE costs[CHOOSE i \in hits : \A j \in hits : i <= j][2]

-----------------------------------------------------------------------------
(* utils.py: the alert evaluator and the baseline aggregator *)

\* CanFloat, had a cost that is no number been taken as 0
CanFloatLenient(field) == field.t \in {"number", "text", "junk"}

\* float(result[0]): a cost field is a JSON number, a numeric string, or a
\* string that is no number (float raises ValueError)
CanFloat(field) == field.t \in {"number", "text"}
Float(field) == field.v

\* check_alert, had it compared with >= instead of >
check_alertGE(cost_yesterday, average_cost) ==
    IF ~RatGT(RatAdd(average_cost, RatInt(Epsilon)), RatInt(cost_yesterday))
    THEN "Yes" ELSE "No"

\* check_alert, had it compared with the average alone
check_alertNoEpsilon(cost_yesterday, average_cost) ==
    IF RatGT(RatInt(cost_yesterday), average_cost) THEN "Yes" ELSE "No"

\* utils.check_alert
check_alert(cost_yesterday, average_cost) ==
    IF RatGT(RatInt(cost_yesterday), RatAdd(average_cost, RatInt(Epsilon)))
    THEN "Yes" ELSE "No"

\* get_analysis_timeframe, had the default end date been the current day
get_analysis_timeframeToday(date_str, per, now) ==
    LET end_date == IF date_str # <<>> THEN strptime(date_str) ELSE now
    IN  <<end_date - per, end_date>>

\* get_analysis_timeframe: <<start_date, end_date>> as day ordinals
get_analysis_timeframe(date_str, per, now) ==
    LET end_date == IF date_str # <<>> THEN strptime(date_str) ELSE now - 1
    IN  <<end_date - per, end_date>>

RECURSIVE DayCostsObservedOnly(_, _, _, _)
\* DayCosts, had it skipped the days of the class that have no observation
DayCostsObservedOnly(costs, single_date, end_date, weekend) ==
    IF single_date > end_date THEN <<>>
    ELSE LET date_int == DateInt(strftime(single_date))
             here == IF (weekday(single_date) >= 5) = weekend
                        /\ \E i \in 1..Len(costs) : costs[i][1] = date_int
                     THEN <<FirstCost(costs, date_int)>> ELSE <<>>
         IN  here \o DayCostsObservedOnly(costs, single_date + 1, end_date, weekend)

RECURSIVE DayCostsBeforeEnd(_, _, _, _)
\* DayCosts, had the loop stopped on the day before end_date
DayCostsBeforeEnd(costs, single_date, end_date, weekend) ==
    IF single_date >= end_date THEN <<>>
    ELSE LET date_int == DateInt(strftime(single_date))
             day_cost == FirstCost(costs, date_int)
             here == IF (weekday(single_date) >= 5) = weekend
                     THEN <<day_cost>> ELSE <<>>
         IN  here \o DayCostsBeforeEnd(costs, single_date + 1, end_date, weekend)

RECURSIVE DayCosts(_, _, _, _)
\* the day costs that the loop over [single_date, end_date] appends to
\* weekend_costs (weekend = TRUE) or weekday_costs (weekend = FALSE)
DayCosts(costs, single_date, end_date, weekend) ==
    IF single_date > end_date THEN <<>>
    ELSE LET date_int == DateInt(strftime(single_date))
             day_cost == FirstCost(costs, date_int)
             here == IF (weekday(single_date) >= 5) = weekend
                     THEN <<day_cost>> ELSE <<>>
         IN  here \o DayCosts(costs, single_date + 1, end_date, weekend)

\* MakeRecord, had it subtracted the analysis-date cost from the average
MakeRecordSwapped(key, total_cost, total_days, cost_on_analysis_date, start_date, end_date) ==
    LET average_cost == IF total_days > 0 THEN Rat(total_cost, total_days)
                        ELSE RatInt(0)
        cost_difference == RatSub(average_cost, RatInt(cost_on_analysis_date))
    IN  [Key |-> key,
         AverageCost |-> average_cost,
         AnalysisDateCost |-> cost_on_analysis_date,
         Alert |-> check_alert(cost_on_analysis_date, average_cost),
         PercentVariation |->
             IF average_cost.n # 0
             THEN RatMul(RatDiv(cost_difference, average_cost), RatInt(100))
             ELSE RatInt(0),
         CostDifference |-> cost_difference,
         Period |-> <<strftime(start_date), strftime(end_date)>>,
         NumberOfDays |-> total_days,
         AnalysisDate |-> strftime(end_date)]

\* the fields that process_costs and analyze_costs_by_subs derive from
\* total_cost, total_days and the analysis-date cost
MakeRecord(key, total_cost, total_days, cost_on_analysis_date, start_date, end_date) ==
    LET average_cost == IF total_days > 0 THEN Rat(total_cost, total_days)
                        ELSE RatInt(0)
        cost_difference == RatSub(RatInt(cost_on_analysis_date), average_cost)
    IN  [Key |-> key,
         AverageCost |-> average_cost,
         AnalysisDateCost |-> cost_on_analysis_date,
         Alert |-> check_alert(cost_on_analysis_date, average_cost),
         PercentVariation |->
             IF average_cost.n # 0
             THEN RatMul(RatDiv(cost_difference, average_cost), RatInt(100))
             ELSE RatInt(0),
         CostDifference |-> cost_difference,
         Period |-> <<strftime(start_date), strftime(end_date)>>,
         NumberOfDays |-> total_days,
         AnalysisDate |-> strftime(end_date)]

\* ProcessGroup, had the total been the sum of all observations of the
\* group, inside the window or not
ProcessGroupAllObserved(group_value, costs, start_date, end_date, analysis_date_str) ==
    LET analysis_date == strptime(analysis_date_str)
        is_analysis_date_weekend == weekday(analysis_date) >= 5
        class_costs == DayCosts(costs, start_date, end_date, is_analysis_date_weekend)
        total_days == Len(class_costs)
        total_cost == SumSeq([i \in 1..Len(costs) |-> costs[i][2]])
        cost_on_analysis_date == FirstCost(costs, DateInt(analysis_date_str))
    IN  MakeRecord(group_value, total_cost, total_days, cost_on_analysis_date,
                   start_date, end_date)

\* one iteration of the loop of process_costs over costs_by_group.items()
ProcessGroup(group_value, costs, start_date, end_date, analysis_date_str) ==
    LET analysis_date == strptime(analysis_date_str)
        is_analysis_date_weekend == weekday(analysis_date) >= 5
        class_costs == DayCosts(costs, start_date, end_date, is_analysis_date_weekend)
        total_days == Len(class_costs)
        total_cost == SumSeq(class_costs)
        cost_on_analysis_date == FirstCost(costs, DateInt(analysis_date_str))
    IN  MakeRecord(group_value, total_cost, total_days, cost_on_analysis_date,
                   start_date, end_date)

\* process_costs, had every group been looked up in the observations of
\* the first group
process_costsShared(costs_by_group, start_date, end_date, analysis_date_str) ==
    [g \in 1..Len(costs_by_group) |->
        ProcessGroup(costs_by_group[g].key, costs_by_group[1].costs,
                     start_date, end_date, analysis_date_str)]

\* costs_by_group is an insertion-ordered dict: a sequence of [key, costs]
process_costs(costs_by_group, start_date, end_date, analysis_date_str) ==
    [g \in 1..Len(costs_by_group) |->
        ProcessGroup(costs_by_group[g].key, costs_by_group[g].costs,
                     start_date, end_date, analysis_date_str)]

-----------------------------------------------------------------------------
(* utils.py: request_and_process and the three analyses *)

\* a pandas DataFrame of result records, or None
NoneDf == [none |-> TRUE, recs |-> <<>>]
Df(recs) == [none |-> FALSE, recs |-> recs]

\* what an analysis hands back: the exception it raised ("" when it
\* returned), the returned (result, total_cost_analysis_date, df), and the
\* series it had built (costs_by_group, costs_by_tag, or costs as one group)
Raised(exc) ==
    [raised |-> exc, result |-> "", total |-> 0, df |-> NoneDf, series |-> <<>>]
Returned(result, total, df, series) ==
    [raised |-> "", result |-> result, total |-> total, df |-> df, series |-> series]

\* build_cost_management_request: the timePeriod and the grouping of the
\* payload; the time frame is that of get_analysis_timeframe called without
\* arguments (no date, period 31)
build_cost_management_request(grouping_type, grouping_name, now) ==
    LET tf == get_analysis_timeframe(<<>>, 31, now)
    IN  [timePeriod |-> <<strftime(tf[1]), strftime(tf[2])>>,
         grouping |-> IF grouping_type # "Subscription"
                      THEN <<[type |-> grouping_type, name |-> grouping_name]>>
                      ELSE <<>>]

\* the value of request_and_process for an upstream response that arrived
\* with a success status and a JSON body: the tuple (None, 0) when
\* 'properties' or 'rows' is missing, the body otherwise
request_and_process(response) ==
    IF response.kind \in {"no_properties", "no_rows"}
    THEN [kind |-> "tuple", rows |-> <<>>]
    ELSE [kind |-> "dict", rows |-> response.rows]

\* Truthy, had only None been false
TruthyNotNone(tag_value) == tag_value # None

\* Python truth value of a tag value: None and "" are false
Truthy(tag_value) == tag_value \notin {"", None}

\* AddObservation, had a new key been put in front of the others
AddObservationFront(costs_by_group, key, obs) ==
    LET at == {g \in 1..Len(costs_by_group) : costs_by_group[g].key = key}
    IN  IF at = {}
        THEN <<[key |-> key, costs |-> <<obs>>]>> \o costs_by_group
        ELSE [costs_by_group EXCEPT ![CHOOSE g \in at : TRUE].costs = Append(@, obs)]

\* costs_by_group after appending (date, cost) under key
AddObservation(costs_by_group, key, obs) ==
    LET at == {g \in 1..Len(costs_by_group) : costs_by_group[g].key = key}
    IN  IF at = {}
        THEN Append(costs_by_group, [key |-> key, costs |-> <<obs>>])
        ELSE [costs_by_group EXCEPT ![CHOOSE g \in at : TRUE].costs = Append(@, obs)]

RECURSIVE BuildSeries(_, _, _, _)
\* the loop over data['properties']['rows'] from row i on: keyField is the
\* row index of the group key (3: dimension value, 4: tag value); with
\* dropFalsy the rows whose key is false are skipped (tag mode)
BuildSeries(rows, i, keyField, dropFalsy) ==
    IF i = 0 THEN <<>>
    ELSE LET before == BuildSeries(rows, i - 1, keyField, dropFalsy)
             result == rows[i]
             cost == Float(result[1])
             date == result[2]
             group == result[keyField]
         IN  IF dropFalsy /\ ~Truthy(group) THEN before
             ELSE AddObservation(before, group, <<date, cost>>)

RECURSIVE TotalOnDateAllRows(_, _, _, _, _)
\* TotalOnDate, had the total been accumulated outside the test of the key
TotalOnDateAllRows(rows, i, keyField, dropFalsy, date_int) ==
    IF i = 0 THEN 0
    ELSE TotalOnDateAllRows(rows, i - 1, keyField, dropFalsy, date_int)
         + (IF rows[i][2] # date_int THEN 0 ELSE Float(rows[i][1]))

RECURSIVE TotalOnDate(_, _, _, _, _)
\* total_cost_analysis_date after the loop over rows 1..i
TotalOnDate(rows, i, keyField, dropFalsy, date_int) ==
    IF i = 0 THEN 0
    ELSE TotalOnDate(rows, i - 1, keyField, dropFalsy, date_int)
         + (IF (dropFalsy /\ ~Truthy(rows[i][keyField])) \/ rows[i][2] # date_int
            THEN 0 ELSE Float(rows[i][1]))

\* the common body of analyze_costs and analyze_costs_by_tag
AnalyzeGrouped(d, keyField, dropFalsy, date_str, per, now) ==
    LET tf == get_analysis_timeframe(date_str, per, now)
        start_date == tf[1]
        end_date == tf[2]
        analysis_date_str == strftime(end_date)
    IN  IF d.kind = "None" THEN Returned("No Cost Found", 0, NoneDf, <<>>)
        ELSE IF d.kind = "tuple" THEN Raised("TypeError")
        ELSE IF \E i \in 1..Len(d.rows) : ~CanFloat(d.rows[i][1])
        THEN Raised("ValueError")
        ELSE LET costs_by_group == BuildSeries(d.rows, Len(d.rows), keyField, dropFalsy)
                 total_cost_analysis_date ==
                     TotalOnDate(d.rows, Len(d.rows), keyField, dropFalsy,
                                 DateInt(analysis_date_str))
                 results == process_costs(costs_by_group, start_date, end_date,
                                          analysis_date_str)
             IN  IF results = <<>>
                 THEN Returned("No Cost Found", total_cost_analysis_date, NoneDf,
                               costs_by_group)
                 ELSE Returned("table", total_cost_analysis_date, Df(results),
                               costs_by_group)

analyze_costs(d, date_str, per, now) ==
    AnalyzeGrouped(d, 3, FALSE, date_str, per, now)

analyze_costs_by_tag(d, date_str, per, now) ==
    AnalyzeGrouped(d, 4, TRUE, date_str, per, now)

\* analyze_costs_by_subs returns one record (a dict); analyze_subscription
\* wraps it in a one-row DataFrame
analyze_costs_by_subs(subscription_name, d, date_str, per, now) ==
    LET tf == get_analysis_timeframe(date_str, per, now)
        start_date == tf[1]
        end_date == tf[2]
        analysis_date_str == strftime(end_date)
    IN  IF d.kind = "None"
        THEN Returned("record", 0,
                 Df(<<[Key |-> subscription_name,
                       AverageCost |-> RatInt(0),
                       AnalysisDateCost |-> 0,
                       Alert |-> "No",
                       PercentVariation |-> RatInt(0),
                       CostDifference |-> RatInt(0),
                       Period |-> <<strftime(start_date), strftime(end_date)>>,
                       NumberOfDays |-> 0,
                       AnalysisDate |-> strftime(end_date)]>>), <<>>)
        ELSE IF d.kind = "tuple" THEN Raised("TypeError")
        ELSE IF \E i \in 1..Len(d.rows) : ~CanFloat(d.rows[i][1])
        THEN Raised("ValueError")
        ELSE LET costs == [i \in 1..Len(d.rows) |->
                              <<d.rows[i][2], Float(d.rows[i][1])>>]
                 total_cost == SumSeq([i \in 1..Len(costs) |-> costs[i][2]])
                 total_days == Len(costs)
                 cost_on_analysis_date == FirstCost(costs, DateInt(analysis_date_str))
             IN  Returned("record", 0,
                     Df(<<MakeRecord(subscription_name, total_cost, total_days,
                                     cost_on_analysis_date, start_date, end_date)>>),
                     <<[key |-> subscription_name, costs |-> costs]>>)

\* AlertRows, had the comparison with 'Yes' been left out
AlertRowsAll(recs) == recs

\* df[df['Alert'] == 'Yes']
RECURSIVE AlertRows(_)
AlertRows(recs) ==
    IF recs = <<>> THEN <<>>
    ELSE (IF Head(recs).Alert = "Yes" THEN <<Head(recs)>> ELSE <<>>)
         \o AlertRows(Tail(recs))

\* the part of analyze_subscription after the analysis returned a:
\* (subscription_name, df, result)
AfterAnalysis(subscription_name, a, alert) ==
    IF ~a.df.none
    THEN IF alert
         THEN LET alert_df == AlertRows(a.df.recs)
              IN  IF alert_df # <<>>
                  THEN [name |-> subscription_name, df |-> Df(alert_df), result |-> "table"]
                  ELSE [name |-> subscription_name, df |-> NoneDf,
                        result |-> "No alerts found"]
         ELSE [name |-> subscription_name, df |-> a.df, result |-> "table"]
    ELSE [name |-> subscription_name, df |-> NoneDf, result |-> "No data found"]

-----------------------------------------------------------------------------
(* data_processing_utils.py: the simple-mean aggregator *)

\* data_processing_utils.get_analysis_timeframe: the window is seven days
dpu_get_analysis_timeframe(date_str, now) ==
    LET end_date == IF date_str # <<>> THEN strptime(date_str) ELSE now - 1
    IN  <<end_date - 7, end_date>>

\* data_processing_utils.check_alert
dpu_check_alert(cost_yesterday, average_cost) ==
    IF RatGT(RatInt(cost_yesterday), average_cost) THEN "Yes" ELSE "No"

\* one iteration of the loop of data_processing_utils.process_costs;
\* costs is not empty (statistics.mean)
dpu_ProcessGroup(group_value, costs, start_date, end_date, analysis_date_str) ==
    LET cost_values == [i \in 1..Len(costs) |-> costs[i][2]]
        average_cost == Rat(SumSeq(cost_values), Len(cost_values))
        cost_on_analysis_date == FirstCost(costs, DateInt(analysis_date_str))
        cost_difference == RatSub(RatInt(cost_on_analysis_date), average_cost)
    IN  [Key |-> group_value,
         AverageCost |-> average_cost,
         AnalysisDateCost |-> cost_on_analysis_date,
         Alert |-> dpu_check_alert(cost_on_analysis_date, average_cost),
         PercentVariation |->
             IF average_cost.n # 0
             THEN RatMul(RatDiv(cost_difference, average_cost), RatInt(100))
             ELSE RatInt(0),
         CostDifference |-> cost_difference,
         Period |-> <<strftime(start_date), strftime(end_date)>>,
         AnalysisDate |-> strftime(end_date)]

\* data_processing_utils.process_costs
dpu_process_costs(costs_by_group, start_date, end_date, analysis_date_str) ==
    [g \in 1..Len(costs_by_group) |->
        dpu_ProcessGroup(costs_by_group[g].key, costs_by_group[g].costs,
                         start_date, end_date, analysis_date_str)]

-----------------------------------------------------------------------------
(* Strings are tuples of characters *)

\* min(strings, key=len): the first string of minimal length
ShortestStr(strings) ==
    strings[CHOOSE i \in 1..Len(strings) :
                /\ \A j \in 1..Len(strings) : Len(strings[i]) <= Len(strings[j])
                /\ \A j \in 1..(i - 1) : Len(strings[j]) > Len(strings[i])]

\* find_common_prefix, had it returned the shortest string without
\* comparing the characters
find_common_prefixShortest(strings) ==
    IF strings = <<>> THEN <<>> ELSE ShortestStr(strings)

\* utils.find_common_prefix
find_common_prefix(strings) ==
    IF strings = <<>> THEN <<>>
    ELSE LET shortest_str == ShortestStr(strings)
             differ == {i \in 1..Len(shortest_str) :
                           \E o \in 1..Len(strings) : strings[o][i] # shortest_str[i]}
         IN  IF differ = {} THEN shortest_str
             ELSE SubSeq(shortest_str, 1, (CHOOSE i \in differ : \A j \in differ : i <= j) - 1)

startswith(str, prefix) ==
    Len(prefix) <= Len(str) /\ SubSeq(str, 1, Len(prefix)) = prefix

RECURSIVE StrReplace(_, _)
\* str.replace(old, ''): every non-overlapping occurrence of old removed
StrReplace(str, old) ==
    IF old = <<>> \/ Len(str) < Len(old) THEN str
    ELSE IF startswith(str, old)
    THEN StrReplace(SubSeq(str, Len(old) + 1, Len(str)), old)
    ELSE <<Head(str)>> \o StrReplace(Tail(str), old)

RECURSIVE StrStrip(_)
\* str.strip()
StrStrip(str) ==
    IF str = <<>> THEN str
    ELSE IF Head(str) = " " THEN StrStrip(Tail(str))
    ELSE IF str[Len(str)] = " " THEN StrStrip(SubSeq(str, 1, Len(str) - 1))
    ELSE str

-----------------------------------------------------------------------------
(* report.py *)

\* strptime(start_date_str, '%Y-%m-%d') succeeds
CanParseDate(s) ==
    /\ Len(s) = 3
    /\ s[2] \in 1..12
    /\ s[3] \in 1..DaysInMonth(s[1], s[2])

\* validate_parameters, had it returned at the first error
validate_parametersFirstOnly(prefix, type, key, date_str, per) ==
    IF prefix = <<>> THEN <<"Subscription prefix cannot be empty.">>
    ELSE IF type \in {"group", "tag"} /\ key = ""
    THEN <<"Grouping key is required for analysis types 'group' and 'tag'.">>
    ELSE IF date_str # <<>> /\ ~CanParseDate(date_str)
    THEN <<"Start date is not in the correct format YYYY-MM-DD.">>
    ELSE IF per <= 0 THEN <<"Period must be a positive integer.">>
    ELSE <<>>

validate_parameters(prefix, type, key, date_str, per) ==
    (IF prefix = <<>> THEN <<"Subscription prefix cannot be empty.">> ELSE <<>>)
    \o (IF type \in {"group", "tag"} /\ key = ""
        THEN <<"Grouping key is required for analysis types 'group' and 'tag'.">>
        ELSE <<>>)
    \o (IF date_str # <<>> /\ ~CanParseDate(date_str)
        THEN <<"Start date is not in the correct format YYYY-MM-DD.">> ELSE <<>>)
    \o (IF per <= 0 THEN <<"Period must be a positive integer.">> ELSE <<>>)

-----------------------------------------------------------------------------
(* Inputs *)

RECURSIVE SeqsUpTo(_, _)
\* the sequences over S of length at most n
SeqsUpTo(S, n) ==
    IF n = 0 THEN {<<>>}
    ELSE LET shorter == SeqsUpTo(S, n - 1)
         IN  shorter \cup {Append(q, x) : q \in {r \in shorter : Len(r) = n - 1}, x \in S}

Num(v) == [t |-> "number", v |-> v]
Junk == [t |-> "junk", v |-> 0]

AnalysisTypes == {"group", "tag", "subscription"}
Prefixes == {<<>>, <<"p">>}
GroupingKeys == {"", "ServiceName"}
\* --date: absent, 2024-01-07 (a Sunday), 2024-13-01 (no date)
DateArgs == {<<>>, <<2024, 1, 7>>, <<2024, 13, 1>>}
\* the clock of the run: 2024-01-03, so that yesterday is Tuesday 2024-01-02
UtcNowDays == {strptime(<<2024, 1, 3>>)}

\* the accounts of the tenant, in the order in which az account list prints
\* them: two names that differ after the prefix, a name that repeats the
\* first, and a name without the prefix
AccountOrder == << <<"p", "a">>, <<"p", "b">>, <<"p", "a", "p", "a">>, <<"q">> >>
Names == {AccountOrder[i] : i \in 1..Len(AccountOrder)}
\* what az account list may print: some of the accounts, at most MaxSubs
AccountLists ==
    {l \in SeqsUpTo(Names, MaxSubs) :
        \A i, j \in 1..Len(l) :
            i < j => \E a, b \in 1..Len(AccountOrder) :
                        a < b /\ AccountOrder[a] = l[i] /\ AccountOrder[b] = l[j]}

\* the rows of a run: a cost field with the group key (dimension value in
\* group mode, tag value in tag mode), all dated on the analysis date
RunCells(type) ==
    IF type = "group" THEN {<<Num(50000), "A", "BRL">>, <<Num(0), "B", "BRL">>,
                            <<Junk, "A", "BRL">>}
    ELSE IF type = "tag" THEN {<<Num(50000), "Projeto", "t1">>, <<Num(50000), "Projeto", None>>,
                               <<Junk, "Projeto", "t1">>}
    ELSE {<<Num(50000), "BRL", "BRL">>, <<Num(0), "BRL", "BRL">>, <<Junk, "BRL", "BRL">>}

RunRowValues(type, date_int) ==
    {<<c[1], date_int, c[2], c[3]>> : c \in RunCells(type)}

RunResponses(type, date_int) ==
    {[kind |-> k, rows |-> <<>>] :
        k \in {"http_error", "bad_json", "no_properties", "no_rows"}}
    \cup {[kind |-> "ok", rows |-> r] :
            r \in SeqsUpTo(RunRowValues(type, date_int), MaxRunRows)}

\* the rows of the analyses on their own: costs -50 and 50 (50 in tag mode,
\* where the tag values vary), dated on the analysis date or one or two days
\* before it
CostFields(type) ==
    IF type = "tag" THEN {Num(50000)} ELSE {Num(0 - 50000), Num(50000)}
\* --date: Tuesday 2024-01-02 and Sunday 2024-01-07
CostDateArgs == {<<2024, 1, 2>>, <<2024, 1, 7>>}
RowDayOffsets == {0, 1, 2}
CostKeys(type) ==
    IF type = "group" THEN {<<"A", "BRL">>, <<"B", "BRL">>}
    ELSE IF type = "tag" THEN {<<"Projeto", "t1">>, <<"Projeto", "t2">>, <<"Projeto", "">>}
    ELSE {<<"BRL", "BRL">>}

CostRowValues(type, end_date) ==
    {<<c, DateInt(strftime(end_date - k)), key[1], key[2]>> :
        c \in CostFields(type), k \in RowDayOffsets, key \in CostKeys(type)}

-----------------------------------------------------------------------------
(* The run of report.py main *)

NoData == [kind |-> "None", rows |-> <<>>]
NoAnalysis == Raised("")
NoReturn == [name |-> <<>>, df |-> NoneDf, result |-> ""]
NoPayload == [timePeriod |-> <<>>, grouping |-> <<>>]
NoCall == [fn |-> "", cost_yesterday |-> 0, average_cost |-> RatInt(0)]

Init ==
    /\ subscription_prefix \in Prefixes
    /\ grouping_key \in GroupingKeys
    /\ analysis_type \in AnalysisTypes
    /\ alert_mode \in BOOLEAN
    /\ save_xlsx \in BOOLEAN
    /\ start_date_str \in DateArgs
    /\ period \in 0..MaxPeriod
    /\ utcnow \in UtcNowDays
    /\ pc = "validate"
    /\ subscription_ids = <<>>
    /\ idx = 0
    /\ data = NoData
    /\ analysis = NoAnalysis
    /\ returned = NoReturn
    /\ subscription_results = <<>>
    /\ request_count = 0
    /\ error_log = <<>>
    /\ info_log = <<>>
    /\ exit_code = "running"
    /\ payload = NoPayload
    /\ events = <<>>
    /\ logged_total = -1
    /\ call = NoCall
    /\ retval = ""

\* the command line and the clock do not change during a run; no function
\* is called on its own in a run
args == <<subscription_prefix, grouping_key, analysis_type, alert_mode, save_xlsx,
          start_date_str, period, utcnow, call, retval>>

\* ExitWithError, had the error been logged and the run gone on to its end
ExitWithErrorThenFinish(messages) ==
    /\ error_log' = error_log \o messages
    /\ pc' = "finish"
    /\ UNCHANGED <<info_log, exit_code>>

\* logging.error(message) followed by exit(1) / sys.exit(1)
ExitWithError(messages) ==
    /\ error_log' = error_log \o messages
    /\ exit_code' = "1"
    /\ pc' = "exited"
    /\ UNCHANGED info_log

\* ValidateParameters, had main logged the errors and gone on
ValidateParametersLogOnly ==
    /\ pc = "validate"
    /\ error_log' = error_log \o validate_parameters(subscription_prefix, analysis_type,
                                                     grouping_key, start_date_str, period)
    /\ pc' = "token"
    /\ UNCHANGED <<args, payload, events, logged_total,
                   subscription_ids, idx, data, analysis, returned,
                   subscription_results, request_count, info_log, exit_code>>

\* report.py main, lines 55-59
ValidateParameters ==
    /\ pc = "validate"
    /\ LET validation_errors ==
               validate_parameters(subscription_prefix, analysis_type, grouping_key,
                                   start_date_str, period)
       IN  IF validation_errors # <<>>
           THEN ExitWithError(validation_errors)
           ELSE pc' = "token" /\ UNCHANGED <<error_log, info_log, exit_code>>
    /\ UNCHANGED <<args, payload, events, logged_total,
                   subscription_ids, idx, data, analysis, returned,
                   subscription_results, request_count>>

\* utils.get_access_token: the az command succeeds or fails
GetAccessToken ==
    /\ pc = "token"
    /\ \E ok \in BOOLEAN :
          IF ok
          THEN /\ request_count' = request_count + 1
               /\ pc' = "list"
               /\ UNCHANGED <<error_log, info_log, exit_code>>
          ELSE /\ ExitWithError(<<"Command error">>)
               /\ UNCHANGED request_count
    /\ UNCHANGED <<args, payload, events, logged_total,
                   subscription_ids, idx, data, analysis, returned,
                   subscription_results>>

\* the list comprehension of get_subscription_ids
RECURSIVE MatchingNames(_, _)
MatchingNames(accounts, prefix) ==
    IF accounts = <<>> THEN <<>>
    ELSE (IF startswith(Head(accounts), prefix) THEN <<Head(accounts)>> ELSE <<>>)
         \o MatchingNames(Tail(accounts), prefix)

\* utils.get_subscription_ids
GetSubscriptionIds ==
    /\ pc = "list"
    /\ \E ok \in BOOLEAN, accounts \in AccountLists :
          IF ~ok
          THEN /\ ExitWithError(<<"Command error">>)
               /\ UNCHANGED <<request_count, subscription_ids, idx>>
          ELSE /\ request_count' = request_count + 1
               /\ LET ids == MatchingNames(accounts, subscription_prefix)
                  IN  IF ids = <<>>
                      THEN /\ ExitWithError(<<"No subscriptions found with prefix">>)
                           /\ UNCHANGED <<subscription_ids, idx>>
                      ELSE /\ subscription_ids' = ids
                           /\ idx' = 1
                           /\ pc' = "request"
                           /\ UNCHANGED <<error_log, info_log, exit_code>>
    /\ UNCHANGED <<args, payload, events, logged_total,
                   data, analysis, returned, subscription_results>>

\* end_date.strftime('%Y%m%d') of the analysis, as an integer
AnalysisDateInt ==
    DateInt(strftime(get_analysis_timeframe(start_date_str, period, utcnow)[2]))

\* the request that the analysis of subscription idx builds first
BuildRequest ==
    IF analysis_type = "group"
    THEN build_cost_management_request("Dimension", grouping_key, utcnow)
    ELSE IF analysis_type = "tag"
    THEN build_cost_management_request("TagKey", grouping_key, utcnow)
    ELSE build_cost_management_request("Subscription", subscription_ids[idx], utcnow)

\* utils.request_and_process, called by the analysis of subscription idx:
\* the POST, the pause of one second after a success status, and what
\* comes back
RequestAndProcess ==
    /\ pc = "request"
    /\ payload' = BuildRequest
    /\ \E response \in RunResponses(analysis_type, AnalysisDateInt) :
          IF response.kind = "http_error"
          THEN /\ events' = Append(events, "post")
               /\ ExitWithError(<<"Failed to retrieve cost data">>)
               /\ UNCHANGED <<request_count, data>>
          ELSE IF response.kind = "bad_json"
          THEN /\ events' = events \o <<"post", "sleep 1">>
               /\ request_count' = request_count + 1
               /\ ExitWithError(<<"JSON decode error">>)
               /\ UNCHANGED data
          ELSE /\ events' = events \o <<"post", "sleep 1">>
               /\ request_count' = request_count + 1
               /\ data' = request_and_process(response)
               /\ pc' = "analyze"
               /\ UNCHANGED <<error_log, info_log, exit_code>>
    /\ UNCHANGED <<args, logged_total, subscription_ids, idx, analysis, returned,
                   subscription_results>>

\* Analyzed, had main logged the exception of an analysis and gone on with
\* the next subscription
AnalyzedSkips(a) ==
    /\ analysis' = a
    /\ IF a.raised # ""
       THEN /\ error_log' = Append(error_log, "An error occurred")
            /\ pc' = "sleep"
            /\ UNCHANGED <<returned, info_log, exit_code>>
       ELSE /\ returned' = AfterAnalysis(subscription_ids[idx], a, alert_mode)
            /\ pc' = "store"
            /\ UNCHANGED <<error_log, info_log, exit_code>>
    /\ UNCHANGED <<args, payload, events, logged_total,
                   subscription_ids, idx, data, subscription_results,
                   request_count>>

\* the rest of utils.analyze_subscription once the analysis gave a: an
\* exception goes to the except clause of main, a result is returned
Analyzed(a) ==
    /\ analysis' = a
    /\ IF a.raised # ""
       THEN /\ ExitWithError(<<"An error occurred">>)
            /\ UNCHANGED returned
       ELSE /\ returned' = AfterAnalysis(subscription_ids[idx], a, alert_mode)
            /\ pc' = "store"
            /\ UNCHANGED <<error_log, info_log, exit_code>>
    /\ UNCHANGED <<args, payload, events, logged_total,
                   subscription_ids, idx, data, subscription_results,
                   request_count>>

AnalyzeCosts ==
    /\ pc = "analyze"
    /\ analysis_type = "group"
    /\ Analyzed(analyze_costs(data, start_date_str, period, utcnow))

AnalyzeCostsByTag ==
    /\ pc = "analyze"
    /\ analysis_type = "tag"
    /\ Analyzed(analyze_costs_by_tag(data, start_date_str, period, utcnow))

AnalyzeCostsBySubs ==
    /\ pc = "analyze"
    /\ analysis_type = "subscription"
    /\ Analyzed(analyze_costs_by_subs(subscription_ids[idx], data, start_date_str,
                                      period, utcnow))

\* subscription_results[short_name] = df on an insertion-ordered dict
DictSet(dict, key, value) ==
    LET at == {k \in 1..Len(dict) : dict[k].name = key}
    IN  IF at = {} THEN Append(dict, [name |-> key, df |-> value])
        ELSE [dict EXCEPT ![CHOOSE k \in at : TRUE].df = value]

\* report.py main, lines 68-72
StoreResult ==
    /\ pc = "store"
    /\ LET common_prefix == find_common_prefix(subscription_ids)
           short_name == StrStrip(StrReplace(subscription_ids[idx], common_prefix))
       IN  subscription_results' =
               IF ~returned.df.none
               THEN DictSet(subscription_results, short_name, returned.df)
               ELSE subscription_results
    /\ info_log' = Append(info_log, returned.result)
    /\ pc' = "sleep"
    /\ UNCHANGED <<args, payload, events, logged_total,
                   subscription_ids, idx, data, analysis, returned,
                   request_count, error_log, exit_code>>

\* Sleep, had the loop passed over the subscription that follows
SleepSkipsNext ==
    /\ pc = "sleep"
    /\ idx' = idx + 2
    /\ events' = Append(events, "sleep 2")
    /\ data' = NoData
    /\ analysis' = NoAnalysis
    /\ returned' = NoReturn
    /\ pc' = IF idx + 1 < Len(subscription_ids) THEN "request" ELSE "finish"
    /\ UNCHANGED <<args, payload, logged_total,
                   subscription_ids, subscription_results, request_count,
                   error_log, info_log, exit_code>>

\* the next iteration of the loop without the pause of line 73
SleepNoPause ==
    /\ pc = "sleep"
    /\ idx' = idx + 1
    /\ data' = NoData
    /\ analysis' = NoAnalysis
    /\ returned' = NoReturn
    /\ pc' = IF idx < Len(subscription_ids) THEN "request" ELSE "finish"
    /\ UNCHANGED <<args, payload, logged_total, events,
                   subscription_ids, subscription_results, request_count,
                   error_log, info_log, exit_code>>

\* report.py main, line 73 and the next iteration of the loop
Sleep ==
    /\ pc = "sleep"
    /\ idx' = idx + 1
    /\ events' = Append(events, "sleep 2")
    /\ data' = NoData
    /\ analysis' = NoAnalysis
    /\ returned' = NoReturn
    /\ pc' = IF idx < Len(subscription_ids) THEN "request" ELSE "finish"
    /\ UNCHANGED <<args, payload, logged_total,
                   subscription_ids, subscription_results, request_count,
                   error_log, info_log, exit_code>>

\* the name request_count of report.py: 'from utils import request_count'
\* binds it, when report.py is loaded, to the value that utils.request_count
\* has then; increment_request_count rebinds the name in utils only
ImportedRequestCount == 0

\* report.py main, lines 74-77 and the normal end of the process: the total
\* of requests is logged from report.py's own name request_count;
\* save_execution_result writes the workbook or fails; it catches its own
\* exception and logs it, and main goes on to its end
Finish ==
    /\ pc = "finish"
    /\ IF save_xlsx /\ subscription_results # <<>>
       THEN \E written \in BOOLEAN :
               IF written
               THEN /\ info_log' = Append(info_log, "Results saved")
                    /\ UNCHANGED error_log
               ELSE /\ error_log' = Append(error_log, "Failed to save results")
                    /\ UNCHANGED info_log
       ELSE UNCHANGED <<error_log, info_log>>
    /\ logged_total' = ImportedRequestCount
    /\ exit_code' = "0"
    /\ pc' = "exited"
    /\ UNCHANGED <<args, payload, events,
                   subscription_ids, idx, data, analysis, returned,
                   subscription_results, request_count>>

Next ==
    \/ ValidateParameters
    \/ GetAccessToken
    \/ GetSubscriptionIds
    \/ RequestAndProcess
    \/ AnalyzeCosts
    \/ AnalyzeCostsByTag
    \/ AnalyzeCostsBySubs
    \/ StoreResult
    \/ Sleep
    \/ Finish

Spec == Init /\ [][Next]_vars

-----------------------------------------------------------------------------
(* The analyses on their own: a run that has listed one subscription and *)
(* received the rows of its cost query                                    *)

InitCosts ==
    /\ subscription_prefix = <<"p">>
    /\ grouping_key = "ServiceName"
    /\ analysis_type \in AnalysisTypes
    /\ alert_mode = FALSE
    /\ save_xlsx = FALSE
    /\ start_date_str \in CostDateArgs
    /\ period \in 1..MaxPeriod
    /\ utcnow \in UtcNowDays
    /\ pc = "analyze"
    /\ subscription_ids = << <<"p", "a">> >>
    /\ idx = 1
    /\ data \in {[kind |-> "dict", rows |-> r] :
                    r \in SeqsUpTo(CostRowValues(analysis_type, strptime(start_date_str)),
                                   MaxRows)}
    /\ analysis = NoAnalysis
    /\ returned = NoReturn
    /\ subscription_results = <<>>
    /\ request_count = 3
    /\ error_log = <<>>
    /\ info_log = <<>>
    /\ exit_code = "running"
    /\ payload = BuildRequest
    /\ events = <<"post", "sleep 1">>
    /\ logged_total = -1
    /\ call = NoCall
    /\ retval = ""

NextCosts ==
    \/ AnalyzeCosts
    \/ AnalyzeCostsByTag
    \/ AnalyzeCostsBySubs

SpecCosts == InitCosts /\ [][NextCosts]_vars

-----------------------------------------------------------------------------
(* check_alert on its own *)

\* the averages total / days of the call
AlertAverages ==
    {Rat(total, days) : total \in (0 - MaxAlertCost)..MaxAlertCost, days \in 1..MaxAlertDays}

InitAlert ==
    /\ subscription_prefix = <<"p">>
    /\ grouping_key = "ServiceName"
    /\ analysis_type = "group"
    /\ alert_mode = FALSE
    /\ save_xlsx = FALSE
    /\ start_date_str = <<>>
    /\ period = 1
    /\ utcnow \in UtcNowDays
    /\ pc = "call"
    /\ subscription_ids = <<>>
    /\ idx = 0
    /\ data = NoData
    /\ analysis = NoAnalysis
    /\ returned = NoReturn
    /\ subscription_results = <<>>
    /\ request_count = 0
    /\ error_log = <<>>
    /\ info_log = <<>>
    /\ exit_code = "running"
    /\ payload = NoPayload
    /\ events = <<>>
    /\ logged_total = -1
    /\ call \in {[fn |-> "check_alert", cost_yesterday |-> c, average_cost |-> a] :
                    c \in (0 - MaxAlertCost)..MaxAlertCost, a \in AlertAverages}
    /\ retval = ""

CheckAlert ==
    /\ pc = "call"
    /\ call.fn = "check_alert"
    /\ retval' = check_alert(call.cost_yesterday, call.average_cost)
    /\ pc' = "return"
    /\ UNCHANGED <<subscription_prefix, grouping_key, analysis_type, alert_mode,
                   save_xlsx, start_date_str, period, utcnow, subscription_ids, idx, data,
                   analysis, returned, subscription_results, request_count,
                   error_log, info_log, exit_code, payload, events, logged_total, call>>

NextAlert == CheckAlert

SpecAlert == InitAlert /\ [][NextAlert]_vars

-----------------------------------------------------------------------------
(* process_costs of data_processing_utils on its own *)

\* what a day of the series holds: no observation, a cost of 10 or of 25
MeanCells == {<<>>, <<10000>>, <<25000>>}
\* the analysis date of the call: Monday 2024-01-08
MeanDateArg == <<2024, 1, 8>>

RECURSIVE SeriesOf(_, _, _)
\* the series of the observations of days k..MaxMeanDays, day MaxMeanDays
\* being end_date, in the order of the rows (ascending dates)
SeriesOf(cells, k, end_date) ==
    IF k > MaxMeanDays THEN <<>>
    ELSE (IF cells[k] = <<>> THEN <<>>
          ELSE << <<DateInt(strftime(end_date - (MaxMeanDays - k))), cells[k][1]>> >>)
         \o SeriesOf(cells, k + 1, end_date)

InitMean ==
    /\ subscription_prefix = <<"p">>
    /\ grouping_key = "ServiceName"
    /\ analysis_type = "group"
    /\ alert_mode = FALSE
    /\ save_xlsx = FALSE
    /\ start_date_str = MeanDateArg
    /\ period = 7
    /\ utcnow \in UtcNowDays
    /\ pc = "call"
    /\ subscription_ids = <<>>
    /\ idx = 0
    /\ data = NoData
    /\ analysis = NoAnalysis
    /\ returned = NoReturn
    /\ subscription_results = <<>>
    /\ request_count = 0
    /\ error_log = <<>>
    /\ info_log = <<>>
    /\ exit_code = "running"
    /\ payload = NoPayload
    /\ events = <<>>
    /\ logged_total = -1
    /\ \E cells \in [1..MaxMeanDays -> MeanCells] :
          LET tf == dpu_get_analysis_timeframe(start_date_str, utcnow)
              costs == SeriesOf(cells, 1, tf[2])
          IN  /\ costs # <<>>
              /\ call = [fn |-> "process_costs",
                         costs_by_group |-> <<[key |-> "Compute", costs |-> costs]>>,
                         start_date |-> tf[1],
                         end_date |-> tf[2],
                         analysis_date_str |-> strftime(tf[2])]
    /\ retval = ""

ProcessCostsCall ==
    /\ pc = "call"
    /\ call.fn = "process_costs"
    /\ retval' = dpu_process_costs(call.costs_by_group, call.start_date, call.end_date,
                                   call.analysis_date_str)
    /\ pc' = "return"
    /\ UNCHANGED <<subscription_prefix, grouping_key, analysis_type, alert_mode,
                   save_xlsx, start_date_str, period, utcnow, subscription_ids, idx,
                   data, analysis, returned, subscription_results, request_count,
                   error_log, info_log, exit_code, payload, events, logged_total, call>>

NextMean == ProcessCostsCall

SpecMean == InitMean /\ [][NextMean]_vars

-----------------------------------------------------------------------------
(* tagCost.py: get_resource_cost on its own *)

\* range(5): the number of attempts
MaxAttempts == 5

\* what a POST of get_resource_cost can meet: a success status with a JSON
\* body ("ok", with the rows of the body), HTTP 429, another error status,
\* no response at all (requests.post raises: connection error, timeout),
\* or a success status with a body that is no JSON
AttemptOutcomes ==
    {[kind |-> "ok", rows |-> r] : r \in SeqsUpTo({10000, 25000}, MaxCostRows)}
    \cup {[kind |-> k, rows |-> <<>>] : k \in {"429", "500", "no_response", "bad_json"}}

\* the locals of a call: the index of the next attempt, the status of the
\* object bound to response and the rows bound to data ("unbound" before
\* an assignment), with what each POST met and the pauses made, in order
InitRetry ==
    /\ subscription_prefix = <<"p">>
    /\ grouping_key = ""
    /\ analysis_type = "tag"
    /\ alert_mode = FALSE
    /\ save_xlsx = FALSE
    /\ start_date_str \in CostDateArgs
    /\ period = 1
    /\ utcnow \in UtcNowDays
    /\ pc = "attempt"
    /\ subscription_ids = <<>>
    /\ idx = 0
    /\ data = NoData
    /\ analysis = NoAnalysis
    /\ returned = NoReturn
    /\ subscription_results = <<>>
    /\ request_count = 0
    /\ error_log = <<>>
    /\ info_log = <<>>
    /\ exit_code = "running"
    /\ payload = [timePeriod |-> <<start_date_str, start_date_str>>, grouping |-> <<>>]
    /\ events = <<>>
    /\ logged_total = -1
    /\ call = [fn |-> "get_resource_cost",
               attempt |-> 0,
               response |-> "unbound",
               data |-> [bound |-> FALSE, rows |-> <<>>],
               outcomes |-> <<>>,
               waits |-> <<>>]
    /\ retval = ""

\* the except clause for RequestException of attempt call.attempt, the
\* name response being bound to an object of this status, or to none
OnRequestException(status, outcome) ==
    IF status = "unbound"
    THEN \* response.status_code: the name response is not bound
         /\ pc' = "raised"
         /\ retval' = [kind |-> "exception", v |-> 0, name |-> "UnboundLocalError"]
         /\ call' = [call EXCEPT !.outcomes = Append(@, outcome.kind)]
         /\ UNCHANGED <<error_log, exit_code>>
    ELSE IF status = "429"
    THEN \* time.sleep(2 ** attempt), then the next attempt or the end of the loop
         /\ call' = [call EXCEPT !.outcomes = Append(@, outcome.kind),
                                 !.response = status,
                                 !.waits = Append(@, 2 ^ call.attempt),
                                 !.attempt = @ + 1]
         /\ pc' = IF call.attempt + 1 < MaxAttempts THEN "attempt" ELSE "sum"
         /\ UNCHANGED <<retval, error_log, exit_code>>
    ELSE \* handle_errors: logging.error and exit(1)
         /\ call' = [call EXCEPT !.outcomes = Append(@, outcome.kind),
                                 !.response = status]
         /\ error_log' = Append(error_log, "Failed to retrieve cost for resource")
         /\ exit_code' = "1"
         /\ pc' = "exited"
         /\ UNCHANGED retval

\* one iteration of the loop 'for attempt in range(5)'
Attempt ==
    /\ pc = "attempt"
    /\ call.fn = "get_resource_cost"
    /\ \E outcome \in AttemptOutcomes :
          IF outcome.kind = "ok"
          THEN \* data = response.json(); break
               /\ call' = [call EXCEPT !.outcomes = Append(@, "ok"),
                                       !.response = "200",
                                       !.data = [bound |-> TRUE, rows |-> outcome.rows]]
               /\ pc' = "sum"
               /\ UNCHANGED <<retval, error_log, exit_code>>
          ELSE IF outcome.kind = "no_response"
          THEN \* requests.post raised: response keeps what it was bound to
               OnRequestException(call.response, outcome)
          ELSE IF outcome.kind = "bad_json"
          THEN \* response.json() raises. With a requests whose JSONDecodeError
               \* is a RequestException the first except clause takes it;
               \* otherwise 'except json.JSONDecodeError' is evaluated, and
               \* tagCost.py does not import json
               \/ OnRequestException("200", outcome)
               \/ /\ pc' = "raised"
                  /\ retval' = [kind |-> "exception", v |-> 0, name |-> "NameError"]
                  /\ call' = [call EXCEPT !.outcomes = Append(@, "bad_json"),
                                          !.response = "200"]
                  /\ UNCHANGED <<error_log, exit_code>>
          ELSE \* raise_for_status() raises HTTPError for the status received
               OnRequestException(outcome.kind, outcome)
    /\ UNCHANGED <<subscription_prefix, grouping_key, analysis_type, alert_mode,
                   save_xlsx, start_date_str, period, utcnow, subscription_ids, idx,
                   data, analysis, returned, subscription_results, request_count,
                   info_log, payload, events, logged_total>>

\* the summation after the loop: data.get('properties', {}).get('rows', [])
SumRows ==
    /\ pc = "sum"
    /\ call.fn = "get_resource_cost"
    /\ IF call.data.bound
       THEN /\ retval' = [kind |-> "value", v |-> SumSeq(call.data.rows), name |-> ""]
            /\ pc' = "return"
       ELSE /\ retval' = [kind |-> "exception", v |-> 0, name |-> "UnboundLocalError"]
            /\ pc' = "raised"
    /\ UNCHANGED <<subscription_prefix, grouping_key, analysis_type, alert_mode,
                   save_xlsx, start_date_str, period, utcnow, subscription_ids, idx,
                   data, analysis, returned, subscription_results, request_count,
                   error_log, info_log, exit_code, payload, events, logged_total, call>>

NextRetry ==
    \/ Attempt
    \/ SumRows

SpecRetry == InitRetry /\ [][NextRetry]_vars

-----------------------------------------------------------------------------
(* utils.py: find_common_prefix on its own *)

\* the strings of a call: every string over two characters
PrefixStrings == SeqsUpTo({"a", "b"}, MaxStrLen)

InitPrefix ==
    /\ subscription_prefix = <<"p">>
    /\ grouping_key = ""
    /\ analysis_type = "subscription"
    /\ alert_mode = FALSE
    /\ save_xlsx = FALSE
    /\ start_date_str \in CostDateArgs
    /\ period = 1
    /\ utcnow \in UtcNowDays
    /\ pc = "call"
    /\ subscription_ids = <<>>
    /\ idx = 0
    /\ data = NoData
    /\ analysis = NoAnalysis
    /\ returned = NoReturn
    /\ subscription_results = <<>>
    /\ request_count = 0
    /\ error_log = <<>>
    /\ info_log = <<>>
    /\ exit_code = "running"
    /\ payload = NoPayload
    /\ events = <<>>
    /\ logged_total = -1
    /\ call \in {[fn |-> "find_common_prefix", strings |-> l] :
                    l \in SeqsUpTo(PrefixStrings, MaxStrings)}
    /\ retval = <<>>

FindCommonPrefix ==
    /\ pc = "call"
    /\ call.fn = "find_common_prefix"
    /\ retval' = find_common_prefix(call.strings)
    /\ pc' = "return"
    /\ UNCHANGED <<subscription_prefix, grouping_key, analysis_type, alert_mode,
                   save_xlsx, start_date_str, period, utcnow, subscription_ids, idx, data,
                   analysis, returned, subscription_results, request_count,
                   error_log, info_log, exit_code, payload, events, logged_total, call>>

NextPrefix == FindCommonPrefix

SpecPrefix == InitPrefix /\ [][NextPrefix]_vars

-----------------------------------------------------------------------------
(* Properties *)

\* the analysis window <<start_date, end_date>> of the run
Window == get_analysis_timeframe(start_date_str, period, utcnow)
IsWeekend(day) == weekday(day) \in {5, 6}
\* the days of the window that are of the same class as the analysis date
MatchingDays == {day \in Window[1]..Window[2] : IsWeekend(day) = IsWeekend(Window[2])}
\* the row field that holds the group key
KeyField == IF analysis_type = "tag" THEN 4 ELSE 3
Records == analysis.df.recs
Rows == data.rows

\* the rows of the group key that are dated on day
RowsOn(key, day) ==
    {i \in 1..Len(Rows) : Rows[i][KeyField] = key /\ Rows[i][2] = DateInt(strftime(day))}

\* the cost observed for day in the series of key: that of the first such
\* row, 0 when there is none
ObservedCost(key, day) ==
    IF RowsOn(key, day) = {} THEN 0
    ELSE Rows[CHOOSE i \in RowsOn(key, day) : \A j \in RowsOn(key, day) : i <= j][1].v

RECURSIVE SumObserved(_, _)
SumObserved(key, days) ==
    IF days = {} THEN 0
    ELSE LET day == CHOOSE x \in days : TRUE
         IN  ObservedCost(key, day) + SumObserved(key, days \ {day})

\* C1: in every record of process_costs, Average Cost is the sum of the
\* costs observed on the days of the window that are of the class (weekend
\* or weekday) of the analysis date, a day without observation counting 0,
\* divided by the number of these days, and Number of Days is that number.
C1_AverageOverMatchingDays ==
    (pc = "store" /\ analysis_type \in {"group", "tag"}) =>
        \A r \in 1..Len(Records) :
            LET rec == Records[r]
                n == Cardinality(MatchingDays)
            IN  /\ n > 0
                /\ rec.NumberOfDays = n
                /\ rec.AverageCost.n * n = SumObserved(rec.Key, MatchingDays) * rec.AverageCost.d

\* a record over two matching days, one of them without observation, whose
\* group also has a non-zero observation on a day of the other class
C1_Witness ==
    /\ pc = "store"
    /\ analysis_type = "group"
    /\ \E r \in 1..Len(Records) :
          /\ Records[r].NumberOfDays = 2
          /\ Records[r].AverageCost = [n |-> 25000, d |-> 1]
          /\ \E day \in MatchingDays : RowsOn(Records[r].Key, day) = {}
          /\ \E day \in (Window[1]..Window[2]) \ MatchingDays :
                ObservedCost(Records[r].Key, day) # 0

C3_DifferenceAndVariation ==
    pc = "store" =>
        \A r \in 1..Len(Records) :
            LET rec == Records[r]
                avg == rec.AverageCost
                adc == rec.AnalysisDateCost
                diff == rec.CostDifference
                pv == rec.PercentVariation
            IN  /\ diff.n * avg.d = (adc * avg.d - avg.n) * diff.d
                /\ avg.n # 0 => pv.n * avg.n = 100 * (adc * avg.d - avg.n) * pv.d
                /\ avg.n = 0 => pv.n = 0
                /\ (avg.n = 0 /\ adc = 50000) =>
                       /\ pv = [n |-> 0, d |-> 1]
                       /\ diff = [n |-> 50000, d |-> 1]
                       /\ rec.Alert = "Yes"

\* a record with Average Cost 0 and Analysis Date Cost 50
C3_Witness ==
    /\ pc = "store"
    /\ \E r \in 1..Len(Records) :
          /\ Records[r].AverageCost.n = 0
          /\ Records[r].AnalysisDateCost = 50000
          /\ Records[r].NumberOfDays = 2

\* the record of subscription mode for a subscription without cost data
IsZeroRecord(rec) ==
    /\ rec.AverageCost.n = 0
    /\ rec.AnalysisDateCost = 0
    /\ rec.Alert = "No"
    /\ rec.PercentVariation.n = 0
    /\ rec.CostDifference.n = 0
    /\ rec.NumberOfDays = 0

\* the analysis returned "No Cost Found" with total 0 and no dataframe
IsNoCostFound ==
    /\ analysis.raised = ""
    /\ analysis.result = "No Cost Found"
    /\ analysis.total = 0
    /\ analysis.df.none

\* C4: when the response has no 'properties' or no 'rows' under it, the
\* analysis raises no exception and returns the no-data outcome ("No Cost
\* Found", total 0, no dataframe; in subscription mode the all-zero record
\* with Alert "No"), and the run goes on with the next subscription.
C4_MissingRowsIsNoData ==
    (data.kind = "tuple" /\ pc \in {"store", "exited"}) =>
        /\ analysis.raised = ""
        /\ exit_code = "running"
        /\ analysis_type \in {"group", "tag"} => IsNoCostFound
        /\ analysis_type = "subscription" =>
               Len(Records) = 1 /\ IsZeroRecord(Records[1])

\* the response is a body with rows, none of which the analysis can use:
\* there is no row, or (tag mode) every row has an empty tag value
NoUsableRows ==
    /\ data.kind = "dict"
    /\ \/ Rows = <<>>
       \/ analysis_type = "tag" /\ \A i \in 1..Len(Rows) : Rows[i][4] \in {"", None}

\* C5 as stated: with an empty row list (or, in tag mode, every row dropped
\* for its empty tag value) the analysis returns "No Cost Found" with total
\* 0 and no records in every mode, group, tag and subscription.
C5_NoRowsIsNoCostFound ==
    (pc \in {"store", "exited"} /\ NoUsableRows) => IsNoCostFound

\* C5: with an empty row list the analysis raises no exception; group and
\* tag mode return "No Cost Found" with total 0 and no records, and so does
\* tag mode when every row has a numeric cost and an empty tag value;
\* subscription mode returns one all-zero record with Alert "No".
C5_NoRowsOutcome ==
    (pc \in {"store", "exited"} /\ NoUsableRows
        /\ \A i \in 1..Len(Rows) : Rows[i][1].t # "junk") =>
        /\ analysis.raised = ""
        /\ exit_code = "running"
        /\ analysis_type \in {"group", "tag"} => IsNoCostFound
        /\ analysis_type = "subscription" =>
               /\ ~analysis.df.none
               /\ Len(Records) = 1
               /\ IsZeroRecord(Records[1])

\* tag mode has dropped two rows dated on the analysis date, the only ones
C5_Witness ==
    /\ pc = "store"
    /\ analysis_type = "tag"
    /\ Len(Rows) = 2
    /\ NoUsableRows
    /\ \A i \in 1..Len(Rows) : Rows[i][1].v = 50000
    /\ IsNoCostFound

RECURSIVE SumCosts(_)
\* the sum of the costs of the rows with the indices in the set
SumCosts(indices) ==
    IF indices = {} THEN 0
    ELSE LET i == CHOOSE x \in indices : TRUE
         IN  Rows[i][1].v + SumCosts(indices \ {i})

\* the observations (date, cost) of the rows whose field holds key, in row order
ObservationsOf(field, key) ==
    LET HasKey(row) == row[field] = key
        sel == SelectSeq(Rows, HasKey)
    IN  [i \in 1..Len(sel) |-> <<sel[i][2], sel[i][1].v>>]

\* C6: in tag mode a row with an empty tag value creates no group, adds no
\* observation to a series and nothing to the analysis-date total; a row
\* with a tag value is appended to the group of that value and no other.
C6_EmptyTagRowsDropped ==
    (pc = "store" /\ analysis_type = "tag") =>
        LET series == analysis.series
        IN  /\ \A g \in 1..Len(series) : series[g].key \notin {"", None}
            /\ \A g, h \in 1..Len(series) : g # h => series[g].key # series[h].key
            /\ \A i \in 1..Len(Rows) :
                  Rows[i][4] \notin {"", None} =>
                      \E g \in 1..Len(series) : series[g].key = Rows[i][4]
            /\ \A g \in 1..Len(series) :
                  series[g].costs = ObservationsOf(4, series[g].key)
            /\ analysis.total =
                  SumCosts({i \in 1..Len(Rows) :
                               /\ Rows[i][4] \notin {"", None}
                               /\ Rows[i][2] = DateInt(strftime(Window[2]))})
            /\ Len(Records) = Len(series)
            /\ \A g \in 1..Len(series) : Records[g].Key = series[g].key

\* a row with an empty tag value and a cost of 50 on the analysis date,
\* between the rows of two tags
C6_Witness ==
    /\ pc = "store"
    /\ analysis_type = "tag"
    /\ Len(Rows) = 3
    /\ Rows[1][4] = "t1"
    /\ Rows[2][4] = ""
    /\ Rows[2][2] = DateInt(strftime(Window[2]))
    /\ Rows[2][1].v = 50000
    /\ Rows[3][4] = "t2"
    /\ Len(analysis.series) = 2
    /\ analysis.total = 0

IsYes(rec) == rec.Alert = "Yes"

\* the dataframe handed to main holds the alerting records and only them;
\* without any, there is no dataframe, "No alerts found" and no error
AlertFilterExact ==
    (pc = "store" /\ alert_mode /\ ~analysis.df.none) =>
        IF SelectSeq(Records, IsYes) # <<>>
        THEN /\ ~returned.df.none
             /\ returned.df.recs = SelectSeq(Records, IsYes)
        ELSE /\ returned.df.none
             /\ returned.result = "No alerts found"
             /\ exit_code = "running"
             /\ error_log = <<>>

\* a run that logged no error ends with exit code 0
NoErrorEndsOk == (pc = "exited" /\ error_log = <<>>) => exit_code = "0"

\* after "No alerts found" the run logs it and goes on
NoAlertsContinues ==
    (pc = "store" /\ returned.result = "No alerts found") =>
        /\ pc' = "sleep"
        /\ exit_code' = "running"
        /\ error_log' = error_log
        /\ info_log' = Append(info_log, "No alerts found")
        /\ subscription_results' = subscription_results

\* C7: in alert mode the dataframe that analyze_subscription returns holds
\* exactly the records whose Alert is "Yes"; when none alerts there is no
\* dataframe, the result is "No alerts found", the run goes on, and a run
\* without error ends with exit code 0.
C7_AlertModeFilter ==
    [](AlertFilterExact /\ NoErrorEndsOk) /\ [][NoAlertsContinues]_vars

\* after a subscription without alerts, one of two records of the next
\* subscription alerts and is the only one returned
C7_Witness ==
    /\ pc = "store"
    /\ alert_mode
    /\ info_log = <<"No alerts found">>
    /\ Len(Records) = 2
    /\ Len(returned.df.recs) = 1

\* the rows in which a group key appears for the first time
FirstRows == {i \in 1..Len(Rows) : \A j \in 1..(i - 1) : Rows[j][3] # Rows[i][3]}
\* the r-th of them
FirstRow(r) == CHOOSE i \in FirstRows : Cardinality({j \in FirstRows : j <= i}) = r

\* C8: the result of group mode has one record per distinct group key, in
\* the order in which the keys first appear in the rows; the series of a
\* group holds its observations in row order; a group without observation
\* on the analysis date has a record with Analysis Date Cost 0.
C8_OneRecordPerKeyInRowOrder ==
    (pc = "store" /\ analysis_type = "group") =>
        /\ Len(Records) = Cardinality(FirstRows)
        /\ Len(analysis.series) = Cardinality(FirstRows)
        /\ \A r \in 1..Len(Records) :
              /\ Records[r].Key = Rows[FirstRow(r)][3]
              /\ analysis.series[r].key = Records[r].Key
              /\ analysis.series[r].costs = ObservationsOf(3, Records[r].Key)
              /\ RowsOn(Records[r].Key, Window[2]) = {} =>
                     Records[r].AnalysisDateCost = 0

\* rows of the groups B, A, B: the record of B comes first, and A, whose
\* only cost is not on the analysis date, has Analysis Date Cost 0
C8_Witness ==
    /\ pc = "store"
    /\ analysis_type = "group"
    /\ Len(Rows) = 3
    /\ Rows[1][3] = "B" /\ Rows[2][3] = "A" /\ Rows[3][3] = "B"
    /\ Rows[2][1].v = 50000
    /\ Rows[2][2] # DateInt(strftime(Window[2]))
    /\ Len(Records) = 2
    /\ Records[1].Key = "B"
    /\ Records[2].AnalysisDateCost = 0

\* C9: the record of subscription mode equals, in Average Cost, Number of
\* Days, Analysis Date Cost, Alert, Percent Variation and Cost Difference,
\* the record that process_costs gives for the same observations (at least
\* one) as one group with the same window and analysis date.
C9_SubsEqualsProcessCosts ==
    (pc = "store" /\ analysis_type = "subscription" /\ Rows # <<>>) =>
        LET obs == [i \in 1..Len(Rows) |-> <<Rows[i][2], Rows[i][1].v>>]
            one == process_costs(<<[key |-> Records[1].Key, costs |-> obs]>>,
                                 Window[1], Window[2], strftime(Window[2]))[1]
        IN  /\ Records[1].AverageCost = one.AverageCost
            /\ Records[1].NumberOfDays = one.NumberOfDays
            /\ Records[1].AnalysisDateCost = one.AnalysisDateCost
            /\ Records[1].Alert = one.Alert
            /\ Records[1].PercentVariation = one.PercentVariation
            /\ Records[1].CostDifference = one.CostDifference

\* the series without its i-th observation
Without(costs, i) == SubSeq(costs, 1, i - 1) \o SubSeq(costs, i + 1, Len(costs))

\* C10: a second row of a group for a date it already has is a data point
\* of its own: with a non-zero cost on a day that enters the baseline, the
\* group's Average Cost differs from that of the series without that row.
C10_DuplicatesAreDataPoints ==
    (pc = "store" /\ analysis_type = "group") =>
        \A g \in 1..Len(analysis.series) :
            LET costs == analysis.series[g].costs
            IN  \A i, j \in 1..Len(costs) :
                    (/\ i < j
                     /\ costs[i][1] = costs[j][1]
                     /\ costs[j][2] # 0
                     /\ \E day \in MatchingDays : DateInt(strftime(day)) = costs[j][1])
                    => Records[g].AverageCost #
                           process_costs(<<[key |-> Records[g].Key,
                                            costs |-> Without(costs, j)]>>,
                                         Window[1], Window[2],
                                         strftime(Window[2]))[1].AverageCost

\* C11: the analysis-date total that analyze_costs / analyze_costs_by_tag
\* return equals the sum of the Analysis Date Cost fields of the records
\* assembled from the same rows, also when a group has several rows for
\* the analysis date.
C11_TotalIsSumOfRecords ==
    (pc = "store" /\ analysis_type \in {"group", "tag"}) =>
        analysis.total =
            SumSeq([r \in 1..Len(Records) |-> Records[r].AnalysisDateCost])

EmptyPrefix == subscription_prefix = <<>>
MissingKey == analysis_type \in {"group", "tag"} /\ grouping_key = ""
BadDate ==
    /\ start_date_str # <<>>
    /\ ~(/\ start_date_str[2] \in 1..12
         /\ start_date_str[3] >= 1
         /\ start_date_str[3] <= DaysInMonth(start_date_str[1], start_date_str[2]))
BadPeriod == period < 1
InvalidArgs == EmptyPrefix \/ MissingKey \/ BadDate \/ BadPeriod

ValidationMessages ==
    {"Subscription prefix cannot be empty.",
     "Grouping key is required for analysis types 'group' and 'tag'.",
     "Start date is not in the correct format YYYY-MM-DD.",
     "Period must be a positive integer."}

\* nothing outside the process has been called: no token was asked for, no
\* subscription listed, no cost queried, and no error of such a call logged
NoExternalCall ==
    /\ request_count = 0
    /\ subscription_ids = <<>>
    /\ idx = 0
    /\ data = NoData
    /\ analysis = NoAnalysis
    /\ info_log = <<>>
    /\ \A m \in 1..Len(error_log) : error_log[m] \in ValidationMessages

\* a run with an invalid argument never leaves the validation but to exit
InvalidRunStopped ==
    InvalidArgs =>
        /\ pc \in {"validate", "exited"}
        /\ NoExternalCall
        /\ pc = "exited" => exit_code = "1"

\* the step that follows the validation of invalid arguments is the exit
\* with code 1
InvalidRunExits ==
    (pc = "validate" /\ InvalidArgs) =>
        /\ pc' = "exited"
        /\ exit_code' = "1"
        /\ request_count' = 0

\* C13: a run of report.py with an invalid parameter (period not positive,
\* --date that is no date, empty prefix, missing grouping key for group or
\* tag) ends with exit code 1 at the validation, before any external call:
\* no access token is requested, no subscription listed, no cost queried.
C13_InvalidExitsBeforeIO ==
    []InvalidRunStopped /\ [][InvalidRunExits]_vars

\* a run with --period 0 and otherwise valid arguments has exited with
\* code 1 and one message
C13_Witness ==
    /\ pc = "exited"
    /\ period = 0
    /\ ~EmptyPrefix /\ ~MissingKey /\ ~BadDate
    /\ exit_code = "1"
    /\ Len(error_log) = 1
    /\ request_count = 0

\* the number of entries of the error log that are the message
CountLogged(message) ==
    Cardinality({m \in 1..Len(error_log) : error_log[m] = message})

\* 1 when the violation is present, 0 otherwise
Present(violation) == IF violation THEN 1 ELSE 0

\* C14: validate_parameters reports every invalid argument of the run: for
\* each combination of the four violations the error list that main logs
\* before it exits has exactly one entry per violation present (the message
\* of that violation) and no other entry.
C14_EveryViolationReported ==
    (pc = "exited" /\ InvalidArgs) =>
        /\ CountLogged("Subscription prefix cannot be empty.") = Present(EmptyPrefix)
        /\ CountLogged("Grouping key is required for analysis types 'group' and 'tag'.")
               = Present(MissingKey)
        /\ CountLogged("Start date is not in the correct format YYYY-MM-DD.")
               = Present(BadDate)
        /\ CountLogged("Period must be a positive integer.") = Present(BadPeriod)
        /\ Len(error_log) = Present(EmptyPrefix) + Present(MissingKey)
                            + Present(BadDate) + Present(BadPeriod)
        /\ exit_code = "1"

\* a run with all four violations has logged four messages and exited
C14_Witness ==
    /\ pc = "exited"
    /\ EmptyPrefix /\ MissingKey /\ BadDate /\ BadPeriod
    /\ Len(error_log) = 4

\* the errors logged by the run other than a failure to save the results
RunErrors == {m \in 1..Len(error_log) : error_log[m] # "Failed to save results"}

\* C15 as stated: a run exits with code 1 whenever its validation fails or
\* an error is raised anywhere during the run, and with code 0 otherwise.
C15_ExitOneIffErrorRaised ==
    pc = "exited" =>
        /\ exit_code \in {"0", "1"}
        /\ exit_code = "1" <=> (InvalidArgs \/ error_log # <<>>)

\* C15: a run exits with code 1 whenever its validation fails or an error
\* is raised while the token is acquired, the subscriptions are listed, a
\* cost is queried, a row is parsed or the costs are aggregated, and with
\* code 0 in every other run; an error raised while the results are saved
\* is logged and leaves the exit code 0.
C15_ExitCode ==
    pc = "exited" =>
        /\ exit_code \in {"0", "1"}
        /\ exit_code = "1" <=> (InvalidArgs \/ RunErrors # {})
        /\ analysis.raised # "" => exit_code = "1"
        /\ exit_code = "0" =>
               /\ Len(info_log) >= Len(subscription_ids)
               /\ idx = Len(subscription_ids) + 1
        /\ (\E m \in 1..Len(error_log) : error_log[m] = "Failed to save results") =>
               /\ exit_code = "0"
               /\ save_xlsx
               /\ subscription_results # <<>>

\* a run with --save whose results could not be written has logged the
\* failure and exited with code 0
C15_Witness ==
    /\ pc = "exited"
    /\ save_xlsx
    /\ error_log = <<"Failed to save results">>
    /\ exit_code = "0"
    /\ Len(subscription_ids) = 2

\* the response of the current query has a row whose cost is no number
HasMalformedRow ==
    /\ data.kind = "dict"
    /\ \E i \in 1..Len(Rows) : Rows[i][1].t = "junk"

\* C16: a row whose cost field is no number is not recovered inside the
\* analysis: the analysis raises the parse error to its caller and returns
\* nothing, no record, complete or partial, is returned, stored or logged
\* for that subscription, and the run ends with exit code 1.
C16_MalformedRowPropagates ==
    (HasMalformedRow /\ pc # "analyze") =>
        /\ pc = "exited"
        /\ analysis.raised = "ValueError"
        /\ analysis.df.none
        /\ Records = <<>>
        /\ analysis.series = <<>>
        /\ returned.df.none
        /\ returned.result = ""
        /\ Len(info_log) = idx - 1
        /\ Len(subscription_results) <= idx - 1
        /\ exit_code = "1"
        /\ error_log = <<"An error occurred">>

\* the second subscription of a run has a row with a cost of 50 followed
\* by a row whose cost is no number; the first subscription was reported
C16_Witness ==
    /\ pc = "exited"
    /\ idx = 2
    /\ Len(Rows) = 2
    /\ Rows[1][1] = [t |-> "number", v |-> 50000]
    /\ Rows[2][1].t = "junk"
    /\ analysis.raised = "ValueError"
    /\ Len(subscription_results) = 1

\* the observations of the series of the call that are dated before the
\* analysis date (the baseline days)
BaselineCosts ==
    LET costs == call.costs_by_group[1].costs
        IsBaseline(obs) == obs[1] # DateInt(call.analysis_date_str)
        sel == SelectSeq(costs, IsBaseline)
    IN  [i \in 1..Len(sel) |-> sel[i][2]]

\* the series of the example: 10 on each of 20240101..20240107 and 25 on
\* the analysis date 20240108
IsExampleSeries ==
    call.costs_by_group[1].costs =
        << <<20240101, 10000>>, <<20240102, 10000>>, <<20240103, 10000>>,
           <<20240104, 10000>>, <<20240105, 10000>>, <<20240106, 10000>>,
           <<20240107, 10000>>, <<20240108, 25000>> >>

\* C17: in simple-mean mode the Average Cost of a group is the mean of the
\* costs of its baseline days and is not changed by the cost of the
\* analysis date; with 10 on each of 20240101..20240107 and 25 on the
\* analysis date 20240108 the record has Average Cost 10, Alert "Yes",
\* Percent Variation 150 and Cost Difference 15.
C17_SimpleMeanExample ==
    (pc = "return" /\ call.fn = "process_costs") =>
        LET rec == retval[1]
        IN  /\ BaselineCosts # <<>> =>
                   rec.AverageCost.n * Len(BaselineCosts)
                       = SumSeq(BaselineCosts) * rec.AverageCost.d
            /\ IsExampleSeries =>
                   /\ rec.AverageCost = [n |-> 10000, d |-> 1]
                   /\ rec.AnalysisDateCost = 25000
                   /\ rec.Alert = "Yes"
                   /\ rec.PercentVariation = [n |-> 150, d |-> 1]
                   /\ rec.CostDifference = [n |-> 15000, d |-> 1]

\* the record that the loop body of process_costs gives for the
\* observations of key alone, with the window and the analysis date of the
\* run
OwnRecord(key) ==
    ProcessGroup(key, ObservationsOf(KeyField, key), Window[1], Window[2],
                 strftime(Window[2]))

\* C18: the record of a group is a function of the group's own list of
\* observations, the window and the analysis date only: it is the record
\* that the same observations give on their own, whatever rows the other
\* groups hold and wherever the other groups stand in the rows.
C18_RecordOfOwnObservations ==
    (pc = "store" /\ analysis_type \in {"group", "tag"}) =>
        \A r \in 1..Len(Records) :
            /\ Records[r] = OwnRecord(Records[r].Key)
            /\ Cardinality({q \in 1..Len(Records) : Records[q].Key = Records[r].Key}) = 1

\* the rows of two groups are interleaved (A, B, A) with costs on the same
\* days, and the two records differ in their Average Cost
C18_Witness ==
    /\ pc = "store"
    /\ analysis_type = "group"
    /\ Len(Rows) = 3
    /\ Rows[1][3] = "A" /\ Rows[2][3] = "B" /\ Rows[3][3] = "A"
    /\ Rows[1][2] = Rows[2][2]
    /\ Len(Records) = 2
    /\ Records[1].AverageCost # Records[2].AverageCost

\* the date (an integer YYYYMMDD) is that of a day of the window
InWindow(date_int) ==
    \E day \in Window[1]..Window[2] : DateInt(strftime(day)) = date_int

\* the group keys of the rows that the analysis reads
RowKeys ==
    {Rows[i][KeyField] : i \in {j \in 1..Len(Rows) :
        analysis_type = "tag" => Rows[j][4] \notin {"", None}}}

\* every row of the key is dated outside the window
OnlyOutside(key) ==
    \A i \in 1..Len(Rows) : Rows[i][KeyField] = key => ~InWindow(Rows[i][2])

\* C19: a group all of whose observations are dated outside the window
\* [start_date, end_date] still gets exactly one record, with Average Cost
\* 0, Analysis Date Cost 0 and Alert "No"; in no record does an
\* observation outside the window add to the baseline sum.
C19_OutsideWindowGroupIsZero ==
    (pc = "store" /\ analysis_type \in {"group", "tag"}) =>
        /\ \A key \in RowKeys :
              OnlyOutside(key) =>
                  /\ Cardinality({r \in 1..Len(Records) : Records[r].Key = key}) = 1
                  /\ \A r \in 1..Len(Records) :
                        Records[r].Key = key =>
                            /\ Records[r].AverageCost = [n |-> 0, d |-> 1]
                            /\ Records[r].AnalysisDateCost = 0
                            /\ Records[r].Alert = "No"
                            /\ Records[r].NumberOfDays >= 1
        /\ \A r \in 1..Len(Records) :
              Records[r].AverageCost.n * Records[r].NumberOfDays =
                  Records[r].AverageCost.d * SumObserved(Records[r].Key, MatchingDays)

\* with a period of one day, group A has its only cost, 50, two days before
\* the analysis date, and group B a cost inside the window
C19_Witness ==
    /\ pc = "store"
    /\ analysis_type = "group"
    /\ period = 1
    /\ Len(Rows) = 2
    /\ Rows[1][3] = "A" /\ Rows[1][1].v = 50000 /\ ~InWindow(Rows[1][2])
    /\ Rows[2][3] = "B" /\ InWindow(Rows[2][2])
    /\ Records[1].Key = "A"
    /\ Records[1].AverageCost.n = 0
    /\ Records[2].AverageCost.n # 0

\* while subscription idx is queried, analysed and stored, the results of
\* the idx - 1 subscriptions before it, and no other, have been logged, and
\* each of them was queried once (the count also holds the token call and
\* the listing)
OneAtATime ==
    /\ pc \in {"request", "analyze", "store"} =>
           /\ idx \in 1..Len(subscription_ids)
           /\ Len(info_log) = idx - 1
    /\ pc = "request" => request_count = 2 + (idx - 1)
    /\ pc \in {"analyze", "store", "sleep"} => request_count = 2 + idx
    /\ pc = "sleep" => Len(info_log) = idx
    /\ pc = "finish" =>
           /\ idx = Len(subscription_ids) + 1
           /\ Len(info_log) = Len(subscription_ids)
           /\ request_count = 2 + Len(subscription_ids)

\* a cost query is sent for the first subscription after the listing and
\* for subscription idx + 1 after the pause that ends the turn of idx, and
\* at no other moment; the query of a subscription is one request
QueryInTurn ==
    /\ (pc # "request" /\ pc' = "request") =>
           \/ pc = "list" /\ idx' = 1
           \/ pc = "sleep" /\ idx' = idx + 1 /\ Len(info_log) = idx
    /\ (pc = "request" /\ pc' # "request") =>
           /\ idx' = idx
           /\ pc' \in {"analyze", "exited"}
           /\ pc' = "analyze" => request_count' = request_count + 1
    /\ pc \in {"analyze", "store"} => idx' = idx /\ request_count' = request_count

\* C20: report.py main processes the subscriptions strictly one after
\* another: the cost query, the aggregation and the logging of the result
\* of subscription i are all done before the cost query of subscription
\* i + 1 is sent, and each subscription is queried exactly once in a run.
C20_SubscriptionsInSequence ==
    []OneAtATime /\ [][QueryInTurn]_vars

\* the query of the second subscription is about to be sent, the result of
\* the first is logged
C20_Witness ==
    /\ pc = "request"
    /\ idx = 2
    /\ Len(subscription_ids) = 2
    /\ Len(info_log) = 1
    /\ request_count = 3

\* C21: for every --date and --period, the timePeriod (from, to) of the
\* payload of the cost query is the window (start_date, end_date) that the
\* same analysis passes to process_costs: the rows asked for are those of
\* the days that are aggregated.
C21_PayloadCoversWindow ==
    pc \in {"analyze", "store"} =>
        payload.timePeriod = <<strftime(Window[1]), strftime(Window[2])>>

\* no row of the key has a negative cost
NonNegative(key) ==
    \A i \in 1..Len(Rows) : Rows[i][KeyField] = key => Rows[i][1].v >= 0

\* C22: in every record of process_costs with a period of at least one day,
\* Number of Days is at least 1 and the analysis date is one of the days
\* counted: Average Cost * Number of Days is the Analysis Date Cost plus
\* the costs of the other matching days; so, with non-negative costs, a
\* record with Average Cost 0 has Analysis Date Cost 0 and Alert "No".
C22_AnalysisDateInBaseline ==
    (pc = "store" /\ analysis_type \in {"group", "tag"}) =>
        /\ period >= 1
        /\ Window[2] \in MatchingDays
        /\ \A r \in 1..Len(Records) :
              LET rec == Records[r]
                  others == SumObserved(rec.Key, MatchingDays \ {Window[2]})
              IN  /\ rec.NumberOfDays >= 1
                  /\ rec.AverageCost.n * rec.NumberOfDays
                         = rec.AverageCost.d * (rec.AnalysisDateCost + others)
                  /\ (NonNegative(rec.Key) /\ rec.AverageCost.n = 0) =>
                         /\ rec.AnalysisDateCost = 0
                         /\ rec.Alert = "No"

\* the only row of a tag is a cost of 50 on the analysis date, a Sunday
\* with the Saturday in the window: the average over the two days is 25
C22_Witness ==
    /\ pc = "store"
    /\ analysis_type = "tag"
    /\ Len(Rows) = 1
    /\ Rows[1][2] = DateInt(strftime(Window[2]))
    /\ Len(Records) = 1
    /\ Records[1].AnalysisDateCost = 50000
    /\ Records[1].NumberOfDays = 2
    /\ Records[1].AverageCost = [n |-> 25000, d |-> 1]

\* C23: the value that report.py main logs at its end as 'Total number of
\* requests made' is the number of calls of increment_request_count in the
\* run: the token call, the subscription listing and every successful cost
\* query.
C23_LoggedTotalIsRequestCount ==
    (pc = "exited" /\ logged_total # -1) =>
        /\ logged_total = request_count
        /\ logged_total = 2 + Cardinality({e \in 1..Len(events) : events[e] = "post"})

\* the name of a subscription without the common prefix of the names
ShortName(name) == StrStrip(StrReplace(name, find_common_prefix(subscription_ids)))

\* C24: at the end of the loop of report.py main, subscription_results
\* has one entry of its own for every subscription whose analysis returned
\* a dataframe: the shortened names of distinct subscriptions are
\* distinct, and no result is overwritten by that of another subscription.
C24_OneEntryPerSubscription ==
    pc = "finish" =>
        /\ \A i, j \in 1..Len(subscription_ids) :
              subscription_ids[i] # subscription_ids[j] =>
                  ShortName(subscription_ids[i]) # ShortName(subscription_ids[j])
        /\ Len(subscription_results) =
               Cardinality({m \in 1..Len(info_log) : info_log[m] = "table"})

\* save_execution_result has been called: it logged its success or its
\* failure
SaveCalled ==
    \/ \E m \in 1..Len(info_log) : info_log[m] = "Results saved"
    \/ \E m \in 1..Len(error_log) : error_log[m] = "Failed to save results"

\* the run has ended in the turn of subscription idx, on an error of its
\* query or of its analysis: no later subscription was queried or analysed,
\* nothing was saved, the total was not logged, the exit code is 1
FailedTurnEndsRun ==
    (pc = "exited" /\ idx \in 1..Len(subscription_ids)) =>
        /\ exit_code = "1"
        /\ ~SaveCalled
        /\ logged_total = -1
        /\ Len(info_log) = idx - 1
        /\ Cardinality({e \in 1..Len(events) : events[e] = "post"}) = idx
        /\ Len(subscription_results) <= idx - 1

\* the step in which the query or the analysis of a subscription fails is
\* the last of the run: it ends the process with code 1
FailureIsLastStep ==
    /\ (pc \in {"request", "analyze"} /\ error_log' # error_log) =>
           /\ pc' = "exited"
           /\ exit_code' = "1"
           /\ idx' = idx
    /\ pc = "exited" => UNCHANGED vars

\* C25: when the analysis of subscription k raises an exception or calls
\* exit, no subscription after k is analysed, save_execution_result is not
\* called in that run, also with --save and with subscriptions before k
\* analysed with success, and the process exits with code 1.
C25_FailureStopsRun ==
    []FailedTurnEndsRun /\ [][FailureIsLastStep]_vars

\* a run with --save has failed in the turn of its second subscription,
\* after the result of the first was stored
C25_Witness ==
    /\ pc = "exited"
    /\ save_xlsx
    /\ idx = 2
    /\ Len(subscription_ids) = 2
    /\ Len(subscription_results) = 1
    /\ exit_code = "1"
    /\ error_log = <<"Failed to retrieve cost data">>

\* C26: a call of get_resource_cost sends at most 5 POST requests; attempt
\* n + 1 is made only after attempt n received HTTP 429, the pause after
\* the failed attempt of index n is 2^n seconds, a successful attempt ends
\* the loop at once, and any other failure of a request goes to
\* handle_errors, which ends the process, without a further attempt.
C26_RetryOnlyAfter429 ==
    call.fn = "get_resource_cost" =>
        LET outcomes == call.outcomes
        IN  /\ Len(outcomes) <= 5
            /\ \A n \in 1..(Len(outcomes) - 1) : outcomes[n] = "429"
            /\ \A n \in 1..Len(call.waits) : call.waits[n] = 2 ^ (n - 1)
            /\ \A n \in 1..Len(outcomes) :
                  /\ outcomes[n] = "ok" => n = Len(outcomes) /\ pc \in {"sum", "return"}
                  /\ outcomes[n] \in {"500", "no_response", "bad_json"} =>
                         /\ n = Len(outcomes)
                         /\ pc = "exited"
                         /\ exit_code = "1"

\* C27: whenever get_resource_cost does not end the process it returns a
\* number, the sum of row[0] over the rows of the response of a successful
\* attempt (0 when it has no rows), and the summation after the loop never
\* reads a name data that no attempt has assigned.
C27_ReturnsSumOfRows ==
    call.fn = "get_resource_cost" =>
        /\ pc = "sum" => call.data.bound
        /\ pc \in {"return", "raised"} =>
              /\ pc = "return"
              /\ retval.kind = "value"
              /\ retval.v = SumSeq(call.data.rows)

\* the positions of the cost-query POSTs among the events of the run
PostAt == {i \in 1..Len(events) : events[i] = "post"}

\* C28: between any two consecutive cost-query POSTs of one run of
\* report.py there is a delay: the events between them are the 1-second
\* pause after the successful query and the 2-second pause after the
\* subscription, so no two cost queries are sent back to back.
C28_DelayBetweenPosts ==
    \A i \in PostAt : \A j \in PostAt :
        (i < j /\ \A k \in (i + 1)..(j - 1) : k \notin PostAt) =>
            /\ j > i + 1
            /\ SubSeq(events, i + 1, j - 1) = <<"sleep 1", "sleep 2">>

C28_Witness ==
    /\ pc = "analyze"
    /\ idx = 2
    /\ events = <<"post", "sleep 1", "sleep 2", "post", "sleep 1">>

InEpsilonBand(cost, avg) ==
    /\ RatGT(RatInt(cost), avg)
    /\ ~RatGT(RatInt(cost), RatAdd(avg, RatInt(Epsilon)))

BeginsWith(s, p) == Len(p) <= Len(s) /\ \A i \in 1..Len(p) : s[i] = p[i]

\* C30: find_common_prefix returns the longest common prefix of its
\* strings: the result begins every string of the list, no string longer
\* than it begins all of them, it is the empty string for an empty list and
\* the whole string for a list of one.
C30_LongestCommonPrefix ==
    (pc = "return" /\ call.fn = "find_common_prefix") =>
        LET strings == call.strings
            n == Len(strings)
        IN  /\ \A i \in 1..n : BeginsWith(strings[i], retval)
            /\ n > 0 =>
                  ~ \E c \in {"a", "b"} :
                        \A i \in 1..n : BeginsWith(strings[i], Append(retval, c))
            /\ n = 0 => retval = <<>>
            /\ n = 1 => retval = strings[1]

\* a call with three strings that share one character and then differ
C30_Witness ==
    /\ pc = "return"
    /\ call.fn = "find_common_prefix"
    /\ call.strings = << <<"a", "b">>, <<"a", "a">>, <<"a", "b">> >>
    /\ retval = <<"a">>

====
